---- MODULE Spec2Model ----
(***************************************************************************)
(* Model of the clutchlaps scraper:                                        *)
(*   - ScheduleSpider (ekstraligapl/spiders/ekstraliga_match.py): the      *)
(*     per-starting-URL tracking of pending match requests and the         *)
(*     is_scraped update issued when a starting URL's pending set empties; *)
(*   - get_or_create_id (pipeline/data_transformer.py) against a           *)
(*     PostgreSQL table with a unique natural key.                         *)
(*                                                                         *)
(* Spec     the crawl as Scrapy schedules it: start_requests and parse are *)
(*          generators advanced one yield at a time, parse_match_details   *)
(*          is a coroutine whose finally block runs without suspension.    *)
(* SpecApi  the three tracking blocks applied to arbitrary keys.           *)
(* SpecResolve  get_or_create_id calls of concurrent transactions.         *)
(***************************************************************************)
EXTENDS Integers, Sequences, FiniteSets, TLC

\* ------------------------------------------------------------------ bounds
NumUrls    == 2      \* starting URLs (rows of data_source)
NumMatches == 2      \* distinct match URLs on the site
MaxLinks   == 2      \* containers on one schedule page
MaxApiOps  == 4      \* handler invocations in SpecApi
NumTx      == 2      \* document transactions on the store
NumKeys    == 1      \* distinct natural keys
MaxCalls   == 3      \* get_or_create_id calls over all transactions
MaxTokLen  == 3      \* characters in a raw score or field token
MaxEntries == 2      \* rider summaries in telemetry_data
NumFiles   == 1      \* JSON files in the input directory
MaxHeats   == 2      \* heat objects in match_details
MaxLoads   == 2      \* documents transform_and_load opens
MaxTeams   == 2      \* rows of table teams
MaxListed  == 2      \* JSON files one run of transform_and_load lists
MaxPasses  == 2      \* runs of transform_and_load

Urls      == 1..NumUrls
MatchUrls == 1..NumMatches
NotMatch  == 0                       \* a container whose href is no match link
Containers == MatchUrls \cup {NotMatch}

\* is_current_season as fetched from data_source: true, false or NULL
Flags == {"True", "False", "None"}

\* dict modelling: a key that is not in the dict
NoSet  == {NotMatch}                 \* pending_match_requests has no such key
NoMeta == "absent"                   \* start_url_meta has no such key
NoUrl  == 0

VARIABLES
  \* ---- ScheduleSpider fields (from_crawler)
  pending_match_requests,   \* [Urls -> SUBSET MatchUrls \cup {NoSet}]
  start_url_meta,           \* [Urls -> Flags \cup {NoMeta}]
  urls_to_process,          \* Seq of [url, is_current]
  cursorOpen,               \* self.cursor / self.conn are not None
  \* ---- the store behind self.conn
  dbFailed,                 \* a statement failed: the transaction is aborted
  is_scraped,               \* urls with data_source.is_scraped = true, committed
  matchesInDb,              \* match urls present in table matches
  \* ---- Scrapy's engine
  startIdx,                 \* position of the start_requests generator
  sched,                    \* [Urls -> state of the schedule-page request]
  pageLeft,                 \* [Urls -> containers the parse generator has left]
  req,                      \* [MatchUrls -> state of the detail request]
  reqMeta,                  \* [MatchUrls -> meta['starting_url'] of the request]
  \* ---- history
  closeFired,               \* [Urls -> times the pending-set-empty branch ran]
  markAttempts,             \* [Urls -> times the UPDATE was executed]
  markFailed,               \* urls whose UPDATE or commit raised
  registered,               \* [Urls -> children parse added to the set]
  completeCount,            \* [Urls \X MatchUrls -> runs of the finally block]
  lastOp,                   \* the handler step taken last, with its outcome
  apiOps,                   \* handler invocations so far (SpecApi)
  \* ---- data_transformer: one natural-key table and the transactions on it
  rows,                     \* live rows [id, key, tx, committed] of the table
  seq,                      \* next value of the serial id
  txState,                  \* [Txs -> active | aborted | committed | rolledback]
  pc,                       \* [Txs -> idle | insert | wait | reselect]
  arg,                      \* [Txs -> value of the running call]
  nCalls,                   \* [Txs -> calls made]
  calls,                    \* finished calls [tx, n, value, ret, how]
  \* ---- data_transformer: the value parsers and the telemetry lookup
  parseIn,                  \* the raw value (or the lookup's arguments)
  parseOut,                 \* what the parser returned for it
  \* ---- data_transformer: transform_and_load
  inbound,                  \* files in the input directory
  processed,                \* files in the processed directory
  db,                       \* the committed rows of every table
  tx,                       \* the rows the loader's open transaction sees
  txAborted,                \* the store has aborted the open transaction
  lpc,                      \* idle | resolve | match | heats | commit | move
  cur,                      \* the file being loaded
  match_data,               \* its parsed document
  arena_id,                 \* what get_or_create_id returned for the arena
  resolution,               \* how that call went
  loads,                    \* documents opened so far
  \* ---- history of the loads
  lastLoad,                 \* outcome of the load that ended last
  loaded,                   \* the document committed last
  dbAtBegin,                \* db when the running load began
  \* ---- data_transformer: one run of transform_and_load over the directory
  json_files,               \* the names os.listdir returned, in its order
  next_file,                \* position of the for loop in json_files
  pass,                     \* idle | running | ended | raised
  connClosed,               \* the connection to the store is lost
  committedFiles,           \* files whose rows a commit has made durable
  passes,                   \* runs started so far
  \* ---- history of the run
  attemptedFiles            \* the files the loop body was entered for, in order

trackerVars == <<pending_match_requests, start_url_meta>>
dbVars      == <<dbFailed, is_scraped>>
crawlVars   == <<startIdx, sched, pageLeft, req, reqMeta>>
histVars    == <<closeFired, markAttempts, markFailed, registered, completeCount>>
parseVars   == <<parseIn, parseOut>>
passVars    == <<json_files, next_file, pass, connClosed, committedFiles,
                 passes, attemptedFiles>>
docVars     == <<db, tx, txAborted, lpc, cur, match_data, arena_id,
                 resolution, loads, lastLoad, loaded, dbAtBegin>>
loadVars    == <<inbound, processed, docVars, passVars>>
fixedVars   == <<urls_to_process, cursorOpen, matchesInDb, parseVars, loadVars>>
vars == <<pending_match_requests, start_url_meta, urls_to_process, cursorOpen,
          dbFailed, is_scraped, matchesInDb, startIdx, sched, pageLeft, req,
          reqMeta, closeFired, markAttempts, markFailed, registered, completeCount, lastOp,
          apiOps, rows, seq, txState, pc, arg, nCalls, calls, parseIn, parseOut,
          inbound, processed, db, tx, txAborted, lpc, cur, match_data,
          arena_id, resolution, loads, lastLoad, loaded, dbAtBegin,
          json_files, next_file, pass, connClosed, committedFiles, passes,
          attemptedFiles>>

spiderVars == <<trackerVars, dbVars, crawlVars, histVars, fixedVars, lastOp,
                apiOps>>
spiderCore == <<trackerVars, dbVars, crawlVars, histVars, urls_to_process,
                cursorOpen, matchesInDb, lastOp, apiOps>>
pipelineVars == <<rows, seq, txState, pc, arg, nCalls, calls>>

Txs  == 1..NumTx
Keys == 1..NumKeys
NoneVal == 0 - 1                     \* value is None
Blank   == 0                         \* value is a str that strips to ''
Values  == Keys \cup {NoneVal, Blank}
NoId    == 0                         \* get_or_create_id returns None
NoneTok == <<"None">>                \* a field whose value is None (JSON null)
Missing == <<"missing">>             \* a key the object does not have
NotRun  == [fn |-> "none"]           \* no parser has run
NoFile  == 0                         \* no file is being loaded
NoDoc   == [match_url |-> 0]         \* no document

\* ------------------------------------------------------------ tracker code

Op(op, url, match, result, mark) ==
  [op |-> op, url |-> url, match |-> match, result |-> result, mark |-> mark]

NoOp == Op("init", NoUrl, NotMatch, "none", "none")

\* start_requests, loop body: self.start_url_meta[url] = is_current;
\* self.pending_match_requests[url] = set()
OpenMeta(meta, url, is_current) == [meta EXCEPT ![url] = is_current]

OpenPending(pending, url) == [pending EXCEPT ![url] = {}]

\* (variant) a starting url without an entry is left without one
RegisterChild_Skip(pending, starting_url, match_url) ==
  IF pending[starting_url] # NoSet
  THEN [pending EXCEPT ![starting_url] = @ \cup {match_url}]
  ELSE pending

\* parse, tracking block: add to the set, or initialise the set when the
\* starting url has no entry
RegisterChild(pending, starting_url, match_url) ==
  IF pending[starting_url] # NoSet
  THEN [pending EXCEPT ![starting_url] = @ \cup {match_url}]
  ELSE [pending EXCEPT ![starting_url] = {match_url}]

\* (variant) set.discard in place of set.remove: no KeyError
IsTracked_Discard(children, match_url) == TRUE

\* set.remove(match_url) raises KeyError unless the child is in the set
IsTracked(children, match_url) == match_url \in children

\* set.remove(match_url), the child being in the set
RemoveChild(children, match_url) == children \ {match_url}

\* `if not self.pending_match_requests[starting_url]`
BatchEmptied(children) == children = {}

\* self.start_url_meta.get(starting_url, None)
GetMeta(meta, starting_url) ==
  IF meta[starting_url] = NoMeta THEN "None" ELSE meta[starting_url]

\* (variant) `if is_current is not None`
ShouldMark_NotNone(is_current) == is_current # "None"

\* `if is_current is False`
ShouldMark(is_current) == is_current = "False"

\* (variant) the UPDATE is given the match url
MarkTarget_Match(starting_url, match_url) == match_url

\* the url the UPDATE ... WHERE url = %s is given
MarkTarget(starting_url, match_url) == starting_url

\* What the finally block of parse_match_details does to the tracker and the
\* store. dbWorks: the UPDATE and the commit go through, if attempted.
\* result: unknown_batch | untracked | removed | closed
\* mark:   none | skipped_current | skipped_none | no_connection | committed |
\*         failed (the store raises) | aborted (the store works, but the
\*         session's transaction is aborted by an earlier error)
CompleteChild(pending, meta, starting_url, match_url, dbWorks) ==
  IF pending[starting_url] = NoSet
  THEN [pending |-> pending, result |-> "unknown_batch", mark |-> "none"]
  ELSE IF ~IsTracked(pending[starting_url], match_url)
  THEN [pending |-> pending, result |-> "untracked", mark |-> "none"]
  ELSE LET left == RemoveChild(pending[starting_url], match_url)
           p2   == [pending EXCEPT ![starting_url] = left]
           is_current == GetMeta(meta, starting_url)
       IN IF ~BatchEmptied(left)
          THEN [pending |-> p2, result |-> "removed", mark |-> "none"]
          ELSE [pending |-> p2, result |-> "closed",
                mark |-> IF ShouldMark(is_current)
                         THEN IF ~cursorOpen THEN "no_connection"
                              ELSE IF ~dbWorks THEN "failed"
                              ELSE IF dbFailed THEN "aborted"
                              ELSE "committed"
                         ELSE IF is_current = "True" THEN "skipped_current"
                         ELSE "skipped_none"]

\* The finally block as a step of the program.
DoComplete(starting_url, match_url, dbWorks) ==
  LET r == CompleteChild(pending_match_requests, start_url_meta,
                         starting_url, match_url, dbWorks)
      attempted == r.mark \in {"committed", "failed", "aborted"}
  IN /\ pending_match_requests' = r.pending
     /\ UNCHANGED start_url_meta
     /\ is_scraped' = IF r.mark = "committed"
                      THEN is_scraped \cup {MarkTarget(starting_url, match_url)}
                      ELSE is_scraped
     /\ dbFailed' = (dbFailed \/ r.mark \in {"failed", "aborted"})
     /\ closeFired' = IF r.result = "closed"
                      THEN [closeFired EXCEPT ![starting_url] = @ + 1]
                      ELSE closeFired
     /\ markAttempts' = IF attempted
                        THEN [markAttempts EXCEPT ![starting_url] = @ + 1]
                        ELSE markAttempts
     /\ markFailed' = IF r.mark \in {"failed", "aborted"}
                      THEN markFailed \cup {starting_url} ELSE markFailed
     /\ completeCount' = [completeCount EXCEPT ![<<starting_url, match_url>>] = @ + 1]
     /\ UNCHANGED registered
     /\ lastOp' = Op("complete", starting_url, match_url, r.result, r.mark)

DoRegister(starting_url, match_url) ==
  /\ pending_match_requests' =
       RegisterChild(pending_match_requests, starting_url, match_url)
  /\ registered' = [registered EXCEPT ![starting_url] = @ \cup {match_url}]
  /\ UNCHANGED <<start_url_meta, closeFired, markAttempts, markFailed,
                 completeCount>>

DoOpen(url, is_current) ==
  /\ start_url_meta' = OpenMeta(start_url_meta, url, is_current)
  /\ pending_match_requests' = OpenPending(pending_match_requests, url)
  /\ UNCHANGED <<dbVars, histVars>>

\* ------------------------------------------------------------------- Init

\* rows of data_source with is_scraped = false, one per url; the urls are
\* interchangeable, so the i-th row carries url i
UrlRows == UNION { [1..n -> [url : Urls, is_current : Flags]] : n \in 0..NumUrls }

RowsOk(rs) == \A i \in DOMAIN rs : rs[i].url = i

\* the matches table holds some of the site's matches (interchangeable too)
MatchTables == { 1..k : k \in 0..NumMatches }

\* data_transformer before any call: an empty table, every transaction open
PipelineInit ==
  /\ rows = {}
  /\ seq = 1
  /\ txState = [t \in Txs |-> "active"]
  /\ pc = [t \in Txs |-> "idle"]
  /\ arg = [t \in Txs |-> NoneVal]
  /\ nCalls = [t \in Txs |-> 0]
  /\ calls = {}

\* no parser has been called
ParseIdle ==
  /\ parseIn = NoneTok
  /\ parseOut = NotRun

\* the store before the first document; nothing in the input directory
EmptyDb ==
  [arenas |-> {}, matches |-> {}, match_team_info |-> {},
   match_rider_stats |-> {}, heats |-> {}, heat_participants |-> {}]

NoLoad == [outcome |-> "none", cause |-> "none", stage |-> "none",
           resolution |-> "none", dirty |-> FALSE]

LoadIdle ==
  /\ inbound = {}
  /\ processed = {}
  /\ db = EmptyDb
  /\ tx = EmptyDb
  /\ txAborted = FALSE
  /\ lpc = "idle"
  /\ cur = NoFile
  /\ match_data = NoDoc
  /\ arena_id = NoId
  /\ resolution = "none"
  /\ loads = 0
  /\ lastLoad = NoLoad
  /\ loaded = NoDoc
  /\ dbAtBegin = EmptyDb
  /\ json_files = <<>>
  /\ next_file = 1
  /\ pass = "idle"
  /\ connClosed = FALSE
  /\ committedFiles = {}
  /\ passes = 0
  /\ attemptedFiles = <<>>

\* from_crawler, then open_spider
Init ==
  /\ pending_match_requests = [u \in Urls |-> NoSet]
  /\ start_url_meta = [u \in Urls |-> NoMeta]
  /\ cursorOpen \in BOOLEAN
  /\ urls_to_process \in {rs \in UrlRows : RowsOk(rs)}
  /\ (~cursorOpen => urls_to_process = <<>>)
  /\ dbFailed = FALSE
  /\ is_scraped = {}
  /\ matchesInDb \in MatchTables
  /\ startIdx = 1
  /\ sched = [u \in Urls |-> "none"]
  /\ pageLeft = [u \in Urls |-> 0]
  /\ req = [m \in MatchUrls |-> "none"]
  /\ reqMeta = [m \in MatchUrls |-> NoUrl]
  /\ closeFired = [u \in Urls |-> 0]
  /\ markAttempts = [u \in Urls |-> 0]
  /\ markFailed = {}
  /\ registered = [u \in Urls |-> {}]
  /\ completeCount = [p \in Urls \X MatchUrls |-> 0]
  /\ lastOp = NoOp
  /\ apiOps = 0
  /\ PipelineInit
  /\ ParseIdle
  /\ LoadIdle

\* --------------------------------------------------------- the crawl (Spec)

\* start_requests: one turn of the loop, up to the yield. The generator is not
\* entered past its guards without a cursor and rows.
StartRequests ==
  /\ cursorOpen
  /\ startIdx <= Len(urls_to_process)
  /\ LET row == urls_to_process[startIdx] IN
       /\ DoOpen(row.url, row.is_current)
       /\ sched' = [sched EXCEPT ![row.url] = IF @ = "none" THEN "inflight" ELSE @]
       /\ lastOp' = Op("open", row.url, NotMatch,
                       IF pending_match_requests[row.url] = NoSet
                       THEN "opened" ELSE "reopened", "none")
  /\ startIdx' = startIdx + 1
  /\ UNCHANGED <<pageLeft, req, reqMeta, fixedVars, apiOps, pipelineVars>>

\* The schedule page is downloaded and handed to parse: the generator is
\* created over the page's containers (n of them).
ScheduleDownloaded(u) ==
  /\ sched[u] = "inflight"
  /\ \E n \in 0..MaxLinks :
       /\ sched' = [sched EXCEPT ![u] = "parsing"]
       /\ pageLeft' = [pageLeft EXCEPT ![u] = n]
  /\ lastOp' = Op("schedule", u, NotMatch, "downloaded", "none")
  /\ UNCHANGED <<trackerVars, dbVars, histVars, startIdx, req, reqMeta,
                 fixedVars, apiOps, pipelineVars>>

\* The schedule page's download fails: the request has no errback, parse is
\* never called.
ScheduleFailed(u) ==
  /\ sched[u] = "inflight"
  /\ sched' = [sched EXCEPT ![u] = "failed"]
  /\ lastOp' = Op("schedule", u, NotMatch, "failed", "none")
  /\ UNCHANGED <<trackerVars, dbVars, histVars, startIdx, pageLeft, req,
                 reqMeta, fixedVars, apiOps, pipelineVars>>

\* parse over the containers `links`, from where the generator stands to its
\* next yield (reg: the match url it registers and requests) or to the end of
\* the list (reg = NotMatch). A container that is no match link is skipped; so
\* is a match the SELECT finds in matches; when the SELECT raises, the match is
\* scraped. failPos: the position at which the store starts to fail (0: never).
\* (variant) no match link is skipped
SkipsLoaded_Never(match_url, fails) == FALSE

\* the SELECT on matches returned a row: `if exists: continue`
SkipsLoaded(match_url, fails) == ~fails /\ match_url \in matchesInDb

RECURSIVE ParseSegment(_, _, _, _)
ParseSegment(links, pos, failed, failPos) ==
  IF links = <<>>
  THEN [rest |-> <<>>, reg |-> NotMatch, failed |-> failed]
  ELSE LET c == Head(links) IN
       IF c = NotMatch
       THEN ParseSegment(Tail(links), pos + 1, failed, failPos)
       ELSE LET fails == failed \/ (failPos # 0 /\ pos >= failPos) IN
            IF SkipsLoaded(c, fails)
            THEN ParseSegment(Tail(links), pos + 1, failed, failPos)
            ELSE [rest |-> Tail(links), reg |-> c, failed |-> fails]

\* The containers the generator may meet next: any n of them.
Links(n) == [1..n -> Containers]

\* The engine takes the yielded request: the scheduler's duplicate filter drops
\* a url it has seen (dont_filter is not set).
EnqueueDetail(u, m) ==
  /\ req' = IF req[m] = "none" THEN [req EXCEPT ![m] = "inflight"] ELSE req
  /\ reqMeta' = IF req[m] = "none" THEN [reqMeta EXCEPT ![m] = u] ELSE reqMeta

\* parse runs to its next yield: the last of the n containers it consumes is
\* the one it registers and requests.
ParseYield(u) ==
  /\ sched[u] = "parsing"
  /\ \E n \in 1..pageLeft[u] : \E links \in Links(n) : \E failPos \in 0..n :
       LET seg == ParseSegment(links, 1, dbFailed, failPos) IN
         /\ seg.reg # NotMatch
         /\ seg.rest = <<>>
         /\ DoRegister(u, seg.reg)
         /\ EnqueueDetail(u, seg.reg)
         /\ pageLeft' = [pageLeft EXCEPT ![u] = @ - n]
         /\ dbFailed' = seg.failed
         /\ lastOp' = Op("register", u, seg.reg,
                         IF pending_match_requests[u] = NoSet
                         THEN "initialized" ELSE "added",
                         IF seg.reg \in matchesInDb THEN "in_matches" ELSE "new")
  /\ UNCHANGED <<is_scraped, startIdx, sched, fixedVars, apiOps, pipelineVars>>

\* parse runs to its end: every container left is skipped.
ParseEnd(u) ==
  /\ sched[u] = "parsing"
  /\ \E links \in Links(pageLeft[u]) : \E failPos \in 0..pageLeft[u] :
       LET seg == ParseSegment(links, 1, dbFailed, failPos) IN
         /\ seg.reg = NotMatch
         /\ dbFailed' = seg.failed
  /\ sched' = [sched EXCEPT ![u] = "done"]
  /\ pageLeft' = [pageLeft EXCEPT ![u] = 0]
  /\ lastOp' = Op("schedule", u, NotMatch, "parsed", "none")
  /\ UNCHANGED <<trackerVars, is_scraped, histVars, startIdx, req, reqMeta,
                 fixedVars, apiOps, pipelineVars>>

\* The detail page is downloaded: parse_match_details starts; its try body
\* awaits the browser page, other callbacks run meanwhile.
DetailDownloaded(m) ==
  /\ req[m] = "inflight"
  /\ req' = [req EXCEPT ![m] = "processing"]
  /\ lastOp' = Op("detail", reqMeta[m], m, "downloaded", "none")
  /\ UNCHANGED <<trackerVars, dbVars, histVars, startIdx, sched, pageLeft,
                 reqMeta, fixedVars, apiOps, pipelineVars>>

\* The detail page's download fails or times out: the request has no errback,
\* parse_match_details (and its finally block) never runs.
DetailFailed(m) ==
  /\ req[m] = "inflight"
  /\ req' = [req EXCEPT ![m] = "dropped"]
  /\ lastOp' = Op("detail", reqMeta[m], m, "failed", "none")
  /\ UNCHANGED <<trackerVars, dbVars, histVars, startIdx, sched, pageLeft,
                 reqMeta, fixedVars, apiOps, pipelineVars>>

\* parse_match_details leaves its try body, normally or by an exception, and
\* runs the finally block.
DetailFinally(m) ==
  /\ req[m] = "processing"
  /\ \E dbWorks \in BOOLEAN : DoComplete(reqMeta[m], m, dbWorks)
  /\ req' = [req EXCEPT ![m] = "done"]
  /\ UNCHANGED <<startIdx, sched, pageLeft, reqMeta, fixedVars, apiOps, pipelineVars>>

Next ==
  \/ StartRequests
  \/ \E u \in Urls : ScheduleDownloaded(u)
  \/ \E u \in Urls : ScheduleFailed(u)
  \/ \E u \in Urls : ParseYield(u)
  \/ \E u \in Urls : ParseEnd(u)
  \/ \E m \in MatchUrls : DetailDownloaded(m)
  \/ \E m \in MatchUrls : DetailFailed(m)
  \/ \E m \in MatchUrls : DetailFinally(m)

Spec == Init /\ [][Next]_vars

\* ------------------------------------------- the tracking blocks (SpecApi)

\* The spider after from_crawler and open_spider, no crawl under way.
InitApi ==
  /\ Init
  /\ urls_to_process = <<>>
  /\ matchesInDb = {}

\* start_requests' loop body for a row (url, is_current)
ApiOpen(url, is_current) ==
  /\ apiOps < MaxApiOps
  /\ DoOpen(url, is_current)
  /\ lastOp' = Op("open", url, NotMatch,
                  IF pending_match_requests[url] = NoSet
                  THEN "opened" ELSE "reopened", "none")
  /\ apiOps' = apiOps + 1
  /\ UNCHANGED <<crawlVars, fixedVars, pipelineVars>>

\* parse's tracking block and yield for a match link of a page whose request
\* carries meta['starting_url'] = starting_url
ApiRegister(starting_url, match_url) ==
  /\ apiOps < MaxApiOps
  /\ DoRegister(starting_url, match_url)
  /\ EnqueueDetail(starting_url, match_url)
  /\ lastOp' = Op("register", starting_url, match_url,
                  IF pending_match_requests[starting_url] = NoSet
                  THEN "initialized" ELSE "added", "new")
  /\ apiOps' = apiOps + 1
  /\ UNCHANGED <<dbVars, startIdx, sched, pageLeft, fixedVars, pipelineVars>>

\* parse_match_details' finally block for a response whose request carries
\* meta['starting_url'] = starting_url and meta['match_url'] = match_url
ApiComplete(starting_url, match_url) ==
  /\ apiOps < MaxApiOps
  /\ \E dbWorks \in BOOLEAN : DoComplete(starting_url, match_url, dbWorks)
  /\ apiOps' = apiOps + 1
  /\ UNCHANGED <<crawlVars, fixedVars, pipelineVars>>

NextApi ==
  \/ \E u \in Urls, f \in Flags : ApiOpen(u, f)
  \/ \E u \in Urls, m \in MatchUrls : ApiRegister(u, m)
  \/ \E u \in Urls, m \in MatchUrls : ApiComplete(u, m)

SpecApi == InitApi /\ [][NextApi]_vars

\* ------------------------------- the mark write in the reactor (SpecWrite)
\* The tracking blocks as callbacks of Scrapy's reactor: one thread runs one
\* callback at a time. cursor.execute and conn.commit of the finally block
\* are blocking calls of psycopg2, made without an await: the thread is in
\* the call until the store answers. req[m] = "writing": the handler of m is
\* in the call.

ReactorFree == \A m \in MatchUrls : req[m] # "writing"

WriteOpen(url, is_current) ==
  /\ ReactorFree
  /\ ApiOpen(url, is_current)

WriteRegister(starting_url, match_url) ==
  /\ ReactorFree
  /\ ApiRegister(starting_url, match_url)

\* the finally block up to cursor.execute, or to its end when it writes nothing
CompleteBegin(starting_url, match_url) ==
  /\ ReactorFree
  /\ apiOps < MaxApiOps
  /\ LET r == CompleteChild(pending_match_requests, start_url_meta,
                            starting_url, match_url, TRUE)
     IN IF r.mark \in {"committed", "aborted"}
        THEN /\ pending_match_requests' = r.pending
             /\ closeFired' = [closeFired EXCEPT ![starting_url] = @ + 1]
             /\ completeCount' =
                  [completeCount EXCEPT ![<<starting_url, match_url>>] = @ + 1]
             /\ req' = [req EXCEPT ![match_url] = "writing"]
             /\ reqMeta' = [reqMeta EXCEPT ![match_url] = starting_url]
             /\ lastOp' = Op("complete", starting_url, match_url, r.result,
                             "writing")
             /\ UNCHANGED <<start_url_meta, dbVars, markAttempts, markFailed,
                            registered>>
        ELSE /\ DoComplete(starting_url, match_url, TRUE)
             /\ UNCHANGED <<req, reqMeta>>
  /\ apiOps' = apiOps + 1
  /\ UNCHANGED <<startIdx, sched, pageLeft, fixedVars, pipelineVars>>

\* the store answers: the UPDATE is committed, or execute or commit raises
CompleteEnd(match_url) ==
  /\ req[match_url] = "writing"
  /\ \E dbWorks \in BOOLEAN :
       LET starting_url == reqMeta[match_url]
           mark == IF ~dbWorks THEN "failed"
                   ELSE IF dbFailed THEN "aborted" ELSE "committed"
       IN /\ is_scraped' = IF mark = "committed"
                           THEN is_scraped \cup {MarkTarget(starting_url, match_url)}
                           ELSE is_scraped
          /\ dbFailed' = (dbFailed \/ mark # "committed")
          /\ markAttempts' = [markAttempts EXCEPT ![starting_url] = @ + 1]
          /\ markFailed' = IF mark # "committed"
                           THEN markFailed \cup {starting_url} ELSE markFailed
          /\ lastOp' = Op("complete", starting_url, match_url, "closed", mark)
  /\ req' = [req EXCEPT ![match_url] = "done"]
  /\ UNCHANGED <<trackerVars, closeFired, registered, completeCount, startIdx,
                 sched, pageLeft, reqMeta, fixedVars, apiOps, pipelineVars>>

NextWrite ==
  \/ \E u \in Urls, f \in Flags : WriteOpen(u, f)
  \/ \E u \in Urls, m \in MatchUrls : WriteRegister(u, m)
  \/ \E u \in Urls, m \in MatchUrls : CompleteBegin(u, m)
  \/ \E m \in MatchUrls : CompleteEnd(m)

SpecWrite == InitApi /\ [][NextWrite]_vars

\* ------------------------------------ batches that are open (SpecMarks)
\* The spider when start_requests has run its loop over every row of
\* data_source: each starting url has its flag and an empty pending set. From
\* here only parse's tracking block and the finally block act; the store is
\* touched by the UPDATE and its commit alone.

InitOpened ==
  /\ cursorOpen = TRUE
  /\ urls_to_process \in {rs \in UrlRows : RowsOk(rs) /\ Len(rs) = NumUrls}
  /\ start_url_meta = [u \in Urls |-> urls_to_process[u].is_current]
  /\ pending_match_requests = [u \in Urls |-> {}]
  /\ startIdx = NumUrls + 1
  /\ dbFailed = FALSE
  /\ is_scraped = {}
  /\ matchesInDb = {}
  /\ sched = [u \in Urls |-> "none"]
  /\ pageLeft = [u \in Urls |-> 0]
  /\ req = [m \in MatchUrls |-> "none"]
  /\ reqMeta = [m \in MatchUrls |-> NoUrl]
  /\ closeFired = [u \in Urls |-> 0]
  /\ markAttempts = [u \in Urls |-> 0]
  /\ markFailed = {}
  /\ registered = [u \in Urls |-> {}]
  /\ completeCount = [p \in Urls \X MatchUrls |-> 0]
  /\ lastOp = NoOp
  /\ apiOps = 0
  /\ PipelineInit
  /\ ParseIdle
  /\ LoadIdle

NextMarks ==
  \/ \E u \in Urls, m \in MatchUrls : ApiRegister(u, m)
  \/ \E u \in Urls, m \in MatchUrls : ApiComplete(u, m)

SpecMarks == InitOpened /\ [][NextMarks]_vars

\* ------------------------------------- get_or_create_id (SpecResolve)
\* Transactions of data_transformer runs on one table with a unique natural
\* key, under PostgreSQL's default READ COMMITTED: a statement sees the rows
\* committed when it starts and the rows of its own transaction.

\* (variant) `value is None` only
IsBlankValue_NoneOnly(value) == value = NoneVal

\* `value is None or (isinstance(value, str) and not value.strip())`
IsBlankValue(value) == value \in {NoneVal, Blank}

\* rows SELECT ... WHERE column = value sees in transaction t
Visible(t, value) ==
  { r \in rows : r.key = value /\ (r.committed \/ r.tx = t) }

\* cursor.fetchone() of the SELECT: the id, or None
Lookup(t, value) ==
  IF Visible(t, value) = {} THEN NoId
  ELSE (CHOOSE r \in Visible(t, value) : TRUE).id

\* (variant) no second SELECT after the conflict: the empty RETURNING is returned
Refind_None(t, value) == NoId

\* the SELECT issued again after ON CONFLICT DO NOTHING returned no row
Refind(t, value) == Lookup(t, value)

\* INSERT ... ON CONFLICT (column) DO NOTHING against the unique index:
\* "insert" when no live row has the key, "conflict" when a committed row or a
\* row of t has it, "wait" when only a row of a transaction in progress has it
InsertOutcome(t, value) ==
  LET same == { r \in rows : r.key = value } IN
    IF same = {} THEN "insert"
    ELSE IF \E r \in same : r.committed \/ r.tx = t THEN "conflict"
    ELSE "wait"

Return(t, n, value, ret, how) ==
  /\ calls' = calls \cup {[tx |-> t, n |-> n, value |-> value,
                           ret |-> ret, how |-> how]}
  /\ pc' = [pc EXCEPT ![t] = "idle"]

\* calls made so far by transactions 1..t
RECURSIVE TotalCalls(_)
TotalCalls(t) == IF t = 0 THEN 0 ELSE nCalls[t] + TotalCalls(t - 1)

\* get_or_create_id is called in transaction t: the guard on value, then the
\* first SELECT: found, or on to the INSERT. (In a transaction the store has
\* aborted the first SELECT raises out of the function: TxRollback.)
GocCall(t, value) ==
  /\ txState[t] = "active"
  /\ pc[t] = "idle"
  /\ TotalCalls(NumTx) < MaxCalls
  /\ nCalls' = [nCalls EXCEPT ![t] = @ + 1]
  /\ arg' = [arg EXCEPT ![t] = value]
  /\ IF IsBlankValue(value)
     THEN Return(t, nCalls[t] + 1, value, NoId, "blank")
     ELSE IF Lookup(t, value) # NoId
     THEN Return(t, nCalls[t] + 1, value, Lookup(t, value), "found")
     ELSE /\ pc' = [pc EXCEPT ![t] = "insert"]
          /\ calls' = calls
  /\ UNCHANGED <<rows, seq, txState, spiderVars>>

\* the INSERT: a new row and its id, or nothing returned on conflict, or the
\* statement waits for the transaction that holds the key
GocInsert(t) ==
  /\ pc[t] \in {"insert", "wait"}
  /\ LET out == InsertOutcome(t, arg[t]) IN
       \/ /\ out = "insert"
          /\ rows' = rows \cup {[id |-> seq, key |-> arg[t], tx |-> t,
                                 committed |-> FALSE]}
          /\ seq' = seq + 1
          /\ Return(t, nCalls[t], arg[t], seq, "inserted")
       \/ /\ out = "conflict"
          /\ pc' = [pc EXCEPT ![t] = "reselect"]
          /\ UNCHANGED <<rows, seq, calls>>
       \/ /\ out = "wait"
          /\ pc[t] = "insert"
          /\ pc' = [pc EXCEPT ![t] = "wait"]
          /\ UNCHANGED <<rows, seq, calls>>
  /\ UNCHANGED <<txState, arg, nCalls, spiderVars>>

\* the second SELECT, after the conflict
GocReselect(t) ==
  /\ pc[t] = "reselect"
  /\ Return(t, nCalls[t], arg[t], Refind(t, arg[t]),
            IF Refind(t, arg[t]) # NoId THEN "refound" ELSE "lost")
  /\ UNCHANGED <<rows, seq, txState, arg, nCalls, spiderVars>>

\* the store ends t's transaction on an error: its rows are dead at once
Abort(t) ==
  /\ rows' = { r \in rows : r.tx # t }
  /\ txState' = [txState EXCEPT ![t] = "aborted"]

\* the INSERT or the second SELECT raises psycopg2.Error (the connection is
\* lost, the store breaks a deadlock between two waiting INSERTs): caught,
\* None is returned
GocStoreError(t) ==
  /\ pc[t] \in {"insert", "wait", "reselect"}
  /\ Abort(t)
  /\ Return(t, nCalls[t], arg[t], NoId, "error")
  /\ UNCHANGED <<seq, arg, nCalls, spiderVars>>

\* transform_and_load reaches conn.commit()
TxCommit(t) ==
  /\ txState[t] = "active"
  /\ pc[t] = "idle"
  /\ rows' = { IF r.tx = t THEN [r EXCEPT !.committed = TRUE] ELSE r : r \in rows }
  /\ txState' = [txState EXCEPT ![t] = "committed"]
  /\ UNCHANGED <<seq, pc, arg, nCalls, calls, spiderVars>>

\* a later step of the document raises: conn.rollback()
TxRollback(t) ==
  /\ txState[t] \in {"active", "aborted"}
  /\ pc[t] = "idle"
  /\ rows' = { r \in rows : r.tx # t }
  /\ txState' = [txState EXCEPT ![t] = "rolledback"]
  /\ UNCHANGED <<seq, pc, arg, nCalls, calls, spiderVars>>

NextResolve ==
  \/ \E t \in Txs, v \in Values : GocCall(t, v)
  \/ \E t \in Txs : GocInsert(t)
  \/ \E t \in Txs : GocReselect(t)
  \/ \E t \in Txs : GocStoreError(t)
  \/ \E t \in Txs : TxCommit(t)
  \/ \E t \in Txs : TxRollback(t)

\* the spider is not running
InitResolve ==
  /\ Init
  /\ urls_to_process = <<>>
  /\ matchesInDb = {}
  /\ cursorOpen = FALSE

SpecResolve == InitResolve /\ [][NextResolve]_vars


\* --------------------------------------- the value parsers (SpecParse)
\* A raw value is a str, here a sequence of characters, or None, or is missing
\* from its object.

Chars  == {"1", "2", "'", " ", "x"}
Digits == {"1", "2"}
Tokens == UNION { [1..n -> Chars] : n \in 0..MaxTokLen }
RawValues == Tokens \cup {NoneTok, Missing}

\* dict.get(key, default)
Get(v, default) == IF v = Missing THEN default ELSE v

RECURSIVE LStrip(_)
LStrip(s) == IF s # <<>> /\ Head(s) = " " THEN LStrip(Tail(s)) ELSE s

RECURSIVE RStrip(_)
RStrip(s) ==
  IF s # <<>> /\ s[Len(s)] = " " THEN RStrip(SubSeq(s, 1, Len(s) - 1)) ELSE s

\* str.strip()
Strip(s) == RStrip(LStrip(s))

\* str.upper()
UpperChar(c) == IF c = "x" THEN "X" ELSE IF c = "y" THEN "Y" ELSE c

Upper(s) == [i \in 1..Len(s) |-> UpperChar(s[i])]

\* str.replace(ch, "")
RECURSIVE Remove(_, _)
Remove(s, ch) ==
  IF s = <<>> THEN <<>>
  ELSE IF Head(s) = ch THEN Remove(Tail(s), ch)
  ELSE <<Head(s)>> \o Remove(Tail(s), ch)

\* str.isdigit(): not empty, every character a digit
IsDigit(s) == s # <<>> /\ \A i \in 1..Len(s) : s[i] \in Digits

DigitValue(c) == IF c = "1" THEN 1 ELSE 2

\* the number a string of digits denotes
RECURSIVE IntValue(_)
IntValue(s) ==
  IF s = <<>> THEN 0
  ELSE 10 * IntValue(SubSeq(s, 1, Len(s) - 1)) + DigitValue(s[Len(s)])

\* int(s) does not raise ValueError: digits, with whitespace around allowed
IntParses(s) == IsDigit(Strip(s))

\* (variant) the marker counts only at the end of the token
HasBonus_Trailing(score_str) ==
  score_str # <<>> /\ score_str[Len(score_str)] = "'"

\* `if "'" in score_str`
HasBonus(score_str) == \E i \in 1..Len(score_str) : score_str[i] = "'"

Score(points_numeric, with_bonus, accident_text) ==
  [points_numeric |-> points_numeric, with_bonus |-> with_bonus,
   accident_text |-> accident_text]

parse_score(score_raw) ==
  IF score_raw = NoneTok \/ score_raw = <<>> \/ Strip(score_raw) = <<>>
  THEN Score(0, FALSE, NoneTok)
  ELSE LET score_str == Upper(Strip(score_raw))
           with_bonus == HasBonus(score_str)
           stripped == IF with_bonus THEN Remove(score_str, "'") ELSE score_str
       IN IF IntParses(stripped)
          THEN Score(IntValue(Strip(stripped)), with_bonus, NoneTok)
          ELSE Score(0, with_bonus, stripped)

\* what an integer-ish expression evaluates to: a value, or it raises
Value(n) == [raised |-> FALSE, value |-> n]
Raised   == [raised |-> TRUE, value |-> NoneVal]

\* `int(d.get(k, 0)) if d.get(k, '').isdigit() else otherwise`: None has no
\* isdigit, the expression raises AttributeError
IntegerIsh(v, otherwise) ==
  LET s == Get(v, <<>>) IN
    IF s = NoneTok THEN Raised
    ELSE IF IsDigit(s) THEN Value(IntValue(s))
    ELSE Value(otherwise)

\* `if attendance_summary and attendance_summary.isdigit()`, else None
AttendanceOf(v) ==
  LET attendance_summary == Get(v, NoneTok) IN
    IF attendance_summary # NoneTok /\ attendance_summary # <<>>
       /\ IsDigit(attendance_summary)
    THEN Value(IntValue(attendance_summary))
    ELSE Value(NoneVal)

\* the integer-ish fields: attendance; rider sum and bonus and the four heat
\* scores; home_score and away_score
FieldKinds == {"attendance", "nullable", "headline"}

FieldValue(kind, v) ==
  CASE kind = "attendance" -> AttendanceOf(v)
    [] kind = "nullable"   -> IntegerIsh(v, NoneVal)
    [] kind = "headline"   -> IntegerIsh(v, 0)

\* parse_score is applied to participant_data.get('rider_score', '')
ParseScoreStep ==
  /\ parseOut = NotRun
  /\ parseIn \in RawValues
  /\ parseOut' = [fn |-> "parse_score", res |-> parse_score(Get(parseIn, <<>>))]
  /\ UNCHANGED <<parseIn, spiderCore, pipelineVars, loadVars>>

\* an integer-ish field of the document is evaluated
FieldStep(kind) ==
  /\ parseOut = NotRun
  /\ parseIn \in RawValues
  /\ parseOut' = [fn |-> kind, res |-> FieldValue(kind, parseIn)]
  /\ UNCHANGED <<parseIn, spiderCore, pipelineVars, loadVars>>

NextParse ==
  \/ ParseScoreStep
  \/ \E kind \in FieldKinds : FieldStep(kind)

\* the spider has not started and has no store connection
SpiderIdle ==
  /\ pending_match_requests = [u \in Urls |-> NoSet]
  /\ start_url_meta = [u \in Urls |-> NoMeta]
  /\ cursorOpen = FALSE
  /\ urls_to_process = <<>>
  /\ dbFailed = FALSE
  /\ is_scraped = {}
  /\ matchesInDb = {}
  /\ startIdx = 1
  /\ sched = [u \in Urls |-> "none"]
  /\ pageLeft = [u \in Urls |-> 0]
  /\ req = [m \in MatchUrls |-> "none"]
  /\ reqMeta = [m \in MatchUrls |-> NoUrl]
  /\ closeFired = [u \in Urls |-> 0]
  /\ markAttempts = [u \in Urls |-> 0]
  /\ markFailed = {}
  /\ registered = [u \in Urls |-> {}]
  /\ completeCount = [p \in Urls \X MatchUrls |-> 0]
  /\ lastOp = NoOp
  /\ apiOps = 0

InitParse ==
  /\ SpiderIdle
  /\ PipelineInit
  /\ LoadIdle
  /\ parseIn \in RawValues
  /\ parseOut = NotRun

SpecParse == InitParse /\ [][NextParse]_vars


\* ---------------------------- the telemetry lookup (SpecTelemetry)
\* transform_and_load, for one participant of one heat: the rider's summary in
\* telemetry_data, then the heat's lap detail in the summary.

RiderNames == {<<"x">>, <<"X">>, <<"y">>}
HeatLabels == {<<"1">>, <<"1", ".">>, <<"2">>, <<"1", "2">>, <<"1", ".", "2">>}
TeleRaws   == {"61.8 s", ""}
TeleFields == {"lap_time", "distance", "vmax_lap", "lap1_time", "lap2_time",
               "lap3_time", "lap4_time"}

\* parse_telemetry_value on the raw strings above (in tenths)
parse_telemetry_value(value_str) ==
  IF value_str = "61.8 s" THEN 618 ELSE NoneVal

\* a JSON value that is a list, or is something else (a str, None)
AList(items) == [isList |-> TRUE, items |-> items]
NotAList     == [isList |-> FALSE, items |-> <<>>]

\* a lap detail; raw stands for each of its seven measurements
Details     == [heat_number : HeatLabels, raw : TeleRaws]
DetailLists == {AList(<<>>)} \cup {AList(<<d>>) : d \in Details} \cup {NotAList}
Entries     == [rider_name : RiderNames, detailed_telemetry : DetailLists]
TelemetryData ==
  {AList(l) : l \in UNION {[1..n -> Entries] : n \in 0..MaxEntries}}
    \cup {NotAList}

\* (variant) any summary is taken for the rider
SameRider_Any(entry_name, rider_name) == TRUE

\* `rider_tele_summary.get('rider_name', '').upper() == rider_name_upper`
SameRider(entry_name, rider_name) == Upper(entry_name) = Upper(rider_name)

\* `.replace('.', '')` on both heat numbers
SameHeat(detail_heat, heat_display_number) ==
  Remove(detail_heat, ".") = Remove(heat_display_number, ".")

\* first element of a list for which a test holds (0: none; the loop's break)
FirstIndex(hits) ==
  IF hits = {} THEN 0 ELSE CHOOSE i \in hits : \A j \in hits : i <= j

NoTelemetry == [f \in TeleFields |-> NoneVal]

ParticipantTelemetry(telemetry_data, rider_name, heat_display_number) ==
  LET all_rider_telemetry_list ==
        IF telemetry_data.isList THEN telemetry_data.items ELSE <<>>
      si == FirstIndex({ i \in 1..Len(all_rider_telemetry_list) :
              SameRider(all_rider_telemetry_list[i].rider_name, rider_name) })
  IN IF si = 0 THEN NoTelemetry
     ELSE LET detailed == all_rider_telemetry_list[si].detailed_telemetry IN
          IF ~detailed.isList THEN NoTelemetry
          ELSE LET di == FirstIndex({ j \in 1..Len(detailed.items) :
                           SameHeat(detailed.items[j].heat_number,
                                    heat_display_number) })
               IN IF di = 0 THEN NoTelemetry
                  ELSE [f \in TeleFields |->
                          parse_telemetry_value(detailed.items[di].raw)]

\* the participant's tuple is appended to heat_participants_data
TelemetryStep ==
  /\ parseOut = NotRun
  /\ parseOut' = [fn |-> "telemetry", written |-> TRUE,
                  res |-> ParticipantTelemetry(parseIn.telemetry_data,
                                               parseIn.rider_name,
                                               parseIn.heat_display_number)]
  /\ UNCHANGED <<parseIn, spiderCore, pipelineVars, loadVars>>

NextTelemetry == TelemetryStep

InitTelemetry ==
  /\ SpiderIdle
  /\ PipelineInit
  /\ LoadIdle
  /\ parseIn \in [telemetry_data : TelemetryData, rider_name : RiderNames,
                  heat_display_number : HeatLabels]
  /\ parseOut = NotRun

SpecTelemetry == InitTelemetry /\ [][NextTelemetry]_vars


\* ------------------------------------ transform_and_load (SpecLoad)
\* One pass after another over the input directory, one document at a time,
\* each in a transaction of its own. The serial ids of the tables are
\* represented by the unique keys they stand for: match_id by match_url,
\* heat_id by (match_url, heat_sequence_in_match), arena_id by the name.

Files   == 1..NumFiles
DocUrl  == 1                          \* the match page the documents are of
Texts   == {"a", "b"}                 \* verbatim text of a document's fields
ScoreToks == {<<"1">>, <<>>, NoneTok} \* home_score_details
HeatToks  == {<<"2">>, NoneTok}       \* hometeam_heat_score

HeatObjs ==
  [heat_number : {<<"1">>}, hometeam_heat_score : HeatToks]
    \cup {[heat_number |-> NoneTok, hometeam_heat_score |-> NoneTok]}

HeatLists == UNION { [1..n -> HeatObjs] : n \in 0..MaxHeats }

\* the riders of the home team's roster, and the riders listed in each heat
\* of a document: r2 is in no roster
Roster     == {"r1"}
HeatRiders == {<<"r1">>, <<"r1", "r2">>}

\* the documents the crawler may have written for the match page
Docs == [match_url : {DocUrl}, arena : Keys \cup {NoneVal},
         home_score_details : ScoreToks, text : Texts,
         match_details : HeatLists, heat_riders : HeatRiders]

\* the columns of the conflict target of each table
MatchKey == {"match_url"}
TeamInfoKey == {"match_id", "team_id"}
RiderStatKey == {"match_id", "team_id", "rider_id"}
\* (variant) ON CONFLICT (match_id, heat_display_number)
HeatKey_Label == {"match_id", "heat_display_number"}

\* ON CONFLICT (match_id, heat_sequence_in_match)
HeatKey == {"match_id", "heat_sequence_in_match"}
ParticipantKey == {"heat_id", "match_rider_stat_id"}

\* the values of a row in the columns of a key
KeyOf(r, key) == [c \in key |-> r[c]]

\* (variant) INSERT ... ON CONFLICT (key) DO NOTHING
Upsert_DoNothing(table, row, key) ==
  IF \E r \in table : KeyOf(r, key) = KeyOf(row, key)
  THEN table ELSE table \cup {row}

\* INSERT ... ON CONFLICT (key) DO UPDATE SET every other column
Upsert(table, row, key) ==
  { r \in table : KeyOf(r, key) # KeyOf(row, key) } \cup {row}

\* the matches row of a document
MatchRow(d, arena, home_score) ==
  [match_url |-> d.match_url, arena_id |-> arena, home_score |-> home_score,
   round_name |-> d.text]

TeamInfoRow(d, team) ==
  [match_id |-> d.match_url, team_id |-> team, manager_name |-> d.text]

RiderStatRow(d, rider) ==
  [match_id |-> d.match_url, team_id |-> "home", rider_id |-> rider,
   rider_number_in_match |-> d.text]

HeatRow(d, sequence, heat, score) ==
  [match_id |-> d.match_url, heat_sequence_in_match |-> sequence,
   heat_display_number |-> heat.heat_number, hometeam_heat_score |-> score]

ParticipantRow(d, sequence, rider) ==
  [heat_id |-> <<d.match_url, sequence>>,
   match_rider_stat_id |-> <<d.match_url, "home", rider>>,
   helmet_color |-> d.text]

\* execute_values: one statement upserts several rows of distinct keys
UpsertAll(table, new, key) ==
  { r \in table : \A n \in new : KeyOf(r, key) # KeyOf(n, key) } \cup new

\* (variant) a participant is written whether or not its rider has a stat row
HasStat_Any(t, d, rider) == TRUE

\* rider_name_to_id.get(rider_name) is set and rider_match_stat_id_map has
\* the stat row the match_rider_stats statement returned for the rider
HasStat(t, d, rider) ==
  /\ rider \in Roster
  /\ \E r \in t.match_rider_stats :
       r.match_id = d.match_url /\ r.rider_id = rider

\* the riders of a heat whose rows are appended to heat_participants_data
Participants(t, d) ==
  { d.heat_riders[i] : i \in { j \in 1..Len(d.heat_riders) :
                                 HasStat(t, d, d.heat_riders[j]) } }

\* the matches, match_team_info and match_rider_stats statements
WithMatch(t, d, arena, home_score) ==
  [t EXCEPT
     !.matches = Upsert(@, MatchRow(d, arena, home_score), MatchKey),
     !.match_team_info =
        Upsert(Upsert(@, TeamInfoRow(d, "home"), TeamInfoKey),
               TeamInfoRow(d, "away"), TeamInfoKey),
     !.match_rider_stats =
        UpsertAll(@, { RiderStatRow(d, rider) : rider \in Roster },
                  RiderStatKey)]

\* the heats statement and the heat_participants statement of one heat
WithHeat(t, d, sequence, heat, score) ==
  [t EXCEPT
     !.heats = Upsert(@, HeatRow(d, sequence, heat, score), HeatKey),
     !.heat_participants =
        UpsertAll(@, { ParticipantRow(d, sequence, rider) :
                         rider \in Participants(t, d) }, ParticipantKey)]

\* `if not heat_display_number`
Labelled(heat) == heat.heat_number \notin {NoneTok, <<>>}

\* (variant) the counter moves for the heats that are stored only
Advance_Labelled(heat_sequence_counter, heat) ==
  IF Labelled(heat) THEN heat_sequence_counter + 1 ELSE heat_sequence_counter

\* `heat_sequence_counter += 1`, first statement of the loop body
Advance(heat_sequence_counter, heat) == heat_sequence_counter + 1

\* The loop over match_details from where it stands. failAt: the sequence
\* number at whose INSERT the store raises (0: never). cause: none | parse |
\* store, with the rows written before the exception in tx.
RECURSIVE HeatLoop(_, _, _, _, _)
HeatLoop(heats, heat_sequence_counter, t, d, failAt) ==
  IF heats = <<>> THEN [tx |-> t, cause |-> "none"]
  ELSE LET heat == Head(heats)
           counter == Advance(heat_sequence_counter, heat)
       IN IF ~Labelled(heat)
          THEN HeatLoop(Tail(heats), counter, t, d, failAt)
          ELSE LET score == IntegerIsh(heat.hometeam_heat_score, NoneVal) IN
               IF score.raised THEN [tx |-> t, cause |-> "parse"]
               ELSE IF failAt = counter THEN [tx |-> t, cause |-> "store"]
               ELSE HeatLoop(Tail(heats), counter,
                             WithHeat(t, d, counter, heat, score.value),
                             d, failAt)

\* (variant) the except branch keeps what the transaction wrote
AfterRollback_Kept(committed, working) == working

\* conn.rollback(): the committed rows are what they were
AfterRollback(committed, working) == committed

\* (variant) the commit does not reach the store
AfterCommit_Lost(committed, working) == committed

\* conn.commit(): the transaction's rows are the committed rows
AfterCommit(committed, working) == working

\* the crawler saves a match's JSON file into the directory
EmitDocument(f) ==
  /\ f \notin inbound
  /\ inbound' = inbound \cup {f}
  /\ UNCHANGED <<processed, db, tx, txAborted, lpc, cur, match_data, arena_id,
                 resolution, loads, lastLoad, loaded, dbAtBegin>>
  /\ UNCHANGED <<spiderCore, pipelineVars, parseVars, passVars>>

\* an exception leaves the try block: the except branch rolls back, the file
\* stays where it is, the loop goes on to the next file
RaiseWith(cause, stage, working) ==
  /\ db' = AfterRollback(db, working)
  /\ tx' = AfterRollback(db, working)
  /\ txAborted' = FALSE
  /\ lpc' = "idle"
  /\ cur' = NoFile
  /\ match_data' = NoDoc
  /\ arena_id' = NoId
  /\ resolution' = "none"
  /\ lastLoad' = [outcome |-> "rolledback", cause |-> cause, stage |-> stage,
                  resolution |-> resolution, dirty |-> working # db]
  /\ UNCHANGED <<inbound, processed, loaded>>

Raise(cause, stage) == RaiseWith(cause, stage, tx)

\* the file is opened and parsed (d), or open() or json.load raises
LoadBegin(f) ==
  /\ lpc = "idle"
  /\ f \in inbound
  /\ loads < MaxLoads
  /\ loads' = loads + 1
  /\ dbAtBegin' = db
  /\ \/ \E d \in Docs :
          /\ lpc' = "resolve"
          /\ cur' = f
          /\ match_data' = d
          /\ tx' = db
          /\ txAborted' = FALSE
          /\ UNCHANGED <<inbound, processed, db, arena_id, resolution,
                         lastLoad, loaded>>
     \/ Raise("unreadable", "open")
  /\ UNCHANGED <<spiderCore, pipelineVars, parseVars, passVars>>

\* get_or_create_id for the arena. Its SELECT raises out of the function and
\* so out of the try block; an error of its INSERT is caught inside it and
\* leaves the transaction aborted at the store.
Resolved(id, how, working, aborted) ==
  /\ arena_id' = id
  /\ resolution' = how
  /\ tx' = working
  /\ txAborted' = aborted
  /\ lpc' = "match"
  /\ UNCHANGED <<inbound, processed, db, cur, match_data, lastLoad, loaded>>

LoadResolve ==
  /\ lpc = "resolve"
  /\ LET value == match_data.arena IN
       IF value = NoneVal THEN Resolved(NoId, "blank", tx, FALSE)
       ELSE \/ Raise("store", "resolve")
            \/ /\ value \in tx.arenas
               /\ Resolved(value, "found", tx, FALSE)
            \/ /\ value \notin tx.arenas
               /\ \/ Resolved(value, "inserted",
                              [tx EXCEPT !.arenas = @ \cup {value}], FALSE)
                  \/ Resolved(NoId, "error", tx, TRUE)
  /\ UNCHANGED <<loads, dbAtBegin>>
  /\ UNCHANGED <<spiderCore, pipelineVars, parseVars, passVars>>

\* The store anomaly of the resolver's last branch: a concurrent session
\* committed the key after the SELECT, the INSERT met the conflict, and the
\* row was deleted again before the second SELECT. None is returned.
LoadResolveLost ==
  /\ lpc = "resolve"
  /\ match_data.arena # NoneVal
  /\ match_data.arena \notin tx.arenas
  /\ Resolved(NoId, "lost", tx, FALSE)
  /\ UNCHANGED <<loads, dbAtBegin>>
  /\ UNCHANGED <<spiderCore, pipelineVars, parseVars, passVars>>

\* the match, its team info and its rider stats
LoadMatch ==
  /\ lpc = "match"
  /\ LET home_score == IntegerIsh(match_data.home_score_details, 0) IN
       IF home_score.raised
       THEN Raise("parse", "match")
       ELSE IF txAborted
       THEN Raise("aborted", "match")
       ELSE \/ Raise("store", "match")
            \/ /\ tx' = WithMatch(tx, match_data, arena_id, home_score.value)
               /\ lpc' = "heats"
               /\ UNCHANGED <<inbound, processed, db, txAborted, cur,
                              match_data, arena_id, resolution, lastLoad,
                              loaded>>
  /\ UNCHANGED <<loads, dbAtBegin>>
  /\ UNCHANGED <<spiderCore, pipelineVars, parseVars, passVars>>

\* the heats and their participants
LoadHeats ==
  /\ lpc = "heats"
  /\ \E failAt \in 0..Len(match_data.match_details) :
       LET loop == HeatLoop(match_data.match_details, 0, tx, match_data, failAt)
       IN IF loop.cause # "none"
          THEN RaiseWith(loop.cause, "heats", loop.tx)
          ELSE /\ failAt = 0
               /\ tx' = loop.tx
               /\ lpc' = "commit"
               /\ UNCHANGED <<inbound, processed, db, txAborted, cur,
                              match_data, arena_id, resolution, lastLoad,
                              loaded>>
  /\ UNCHANGED <<loads, dbAtBegin>>
  /\ UNCHANGED <<spiderCore, pipelineVars, parseVars, passVars>>

\* conn.commit(), or it raises
LoadCommit ==
  /\ lpc = "commit"
  /\ \/ /\ db' = AfterCommit(db, tx)
        /\ loaded' = match_data
        /\ lpc' = "move"
        /\ UNCHANGED <<inbound, processed, tx, txAborted, cur, match_data,
                       arena_id, resolution, lastLoad>>
     \/ Raise("store", "commit")
  /\ UNCHANGED <<loads, dbAtBegin>>
  /\ UNCHANGED <<spiderCore, pipelineVars, parseVars, passVars>>

\* shutil.move to the processed directory; its errors are caught and logged
LoadMove ==
  /\ lpc = "move"
  /\ \/ /\ inbound' = inbound \ {cur}
        /\ processed' = processed \cup {cur}
     \/ UNCHANGED <<inbound, processed>>
  /\ lpc' = "idle"
  /\ cur' = NoFile
  /\ match_data' = NoDoc
  /\ arena_id' = NoId
  /\ resolution' = "none"
  /\ lastLoad' = [outcome |-> "committed", cause |-> "none", stage |-> "move",
                  resolution |-> resolution, dirty |-> FALSE]
  /\ UNCHANGED <<db, tx, txAborted, loads, loaded, dbAtBegin>>
  /\ UNCHANGED <<spiderCore, pipelineVars, parseVars, passVars>>

NextLoad ==
  \/ \E f \in Files : EmitDocument(f)
  \/ \E f \in Files : LoadBegin(f)
  \/ LoadResolve
  \/ LoadMatch
  \/ LoadHeats
  \/ LoadCommit
  \/ LoadMove

InitLoad ==
  /\ SpiderIdle
  /\ PipelineInit
  /\ ParseIdle
  /\ LoadIdle

SpecLoad == InitLoad /\ [][NextLoad]_vars

\* the same, on a store where the anomaly may happen
NextLoadAnomaly ==
  \/ NextLoad
  \/ LoadResolveLost

SpecLoadAnomaly == InitLoad /\ [][NextLoadAnomaly]_vars

\* --------------------------- one run of transform_and_load (SpecPass)
\* The for loop over the directory listing, a document's load taken as one
\* step with its outcome: its transaction is committed and the file moved
\* (moved), committed and the move failed (kept), an exception was caught and
\* rolled back (rolledback), or the exception was the loss of the connection
\* (lost). On a lost connection psycopg2 raises from conn.rollback() in the
\* except branch and from conn.autocommit = True in the finally block: the
\* exception leaves the loop and the function, and __main__ logs it.

PassFiles == 1..MaxListed

\* os.listdir: the json names of the directory, each once, in any order
Listings(dir) ==
  { l \in [1..Cardinality(dir) -> dir] :
      \A i, j \in DOMAIN l : i # j => l[i] # l[j] }

\* the spider writes a document into the directory
PassEmit(f) ==
  /\ f \notin inbound
  /\ inbound' = inbound \cup {f}
  /\ UNCHANGED <<processed, docVars, passVars>>
  /\ UNCHANGED <<spiderCore, pipelineVars, parseVars>>

\* __main__: get_db_connection, then transform_and_load up to the for loop
PassStart ==
  /\ pass # "running"
  /\ passes < MaxPasses
  /\ passes' = passes + 1
  /\ json_files' \in Listings(inbound)
  /\ next_file' = 1
  /\ attemptedFiles' = <<>>
  /\ connClosed' = FALSE
  /\ pass' = "running"
  /\ UNCHANGED <<inbound, processed, docVars, committedFiles>>
  /\ UNCHANGED <<spiderCore, pipelineVars, parseVars>>

\* the loop body for the next listed file
PassLoad ==
  /\ pass = "running"
  /\ next_file <= Len(json_files)
  /\ LET filename == json_files[next_file] IN
       /\ attemptedFiles' = Append(attemptedFiles, filename)
       /\ \/ /\ committedFiles' = committedFiles \cup {filename}
             /\ \/ /\ inbound' = inbound \ {filename}
                   /\ processed' = processed \cup {filename}
                \/ UNCHANGED <<inbound, processed>>
             /\ next_file' = next_file + 1
             /\ UNCHANGED <<pass, connClosed>>
          \/ /\ next_file' = next_file + 1
             /\ UNCHANGED <<inbound, processed, committedFiles, pass,
                            connClosed>>
          \/ /\ connClosed' = TRUE
             /\ pass' = "raised"
             /\ UNCHANGED <<inbound, processed, committedFiles, next_file>>
  /\ UNCHANGED <<docVars, json_files, passes>>
  /\ UNCHANGED <<spiderCore, pipelineVars, parseVars>>

\* the list is exhausted: cursor.close() and return
PassEnd ==
  /\ pass = "running"
  /\ next_file > Len(json_files)
  /\ pass' = "ended"
  /\ UNCHANGED <<inbound, processed, docVars, json_files, next_file,
                 connClosed, committedFiles, passes, attemptedFiles>>
  /\ UNCHANGED <<spiderCore, pipelineVars, parseVars>>

NextPass ==
  \/ \E f \in PassFiles : PassEmit(f)
  \/ PassStart
  \/ PassLoad
  \/ PassEnd

SpecPass == InitLoad /\ [][NextPass]_vars


\* ----------------------------------------- team resolution (SpecTeam)
\* The home-team and away-team blocks of transform_and_load, one resolution
\* after another on table teams within the loader's session. parseIn holds
\* the table before the resolution and its arguments, parseOut the table
\* after it and the team id.

Null      == "null"                   \* SQL NULL, Python None
TeamCodes == {"A", "B"}
TeamNames == {"n1", "n2"}
ArenaIds  == {"a1", "a2"}

\* (variant) SET column = the document's value when it has one
Coalesce_Overwrite(old, new) == IF new # Null THEN new ELSE old

\* COALESCE(column, %s)
Coalesce(old, new) == IF old # Null THEN old ELSE new

\* UPDATE teams SET ... WHERE team_id = the row's id
UpdateTeam(teams, old, new) == (teams \ {old}) \cup {new}

TeamResult(teams, id, how) ==
  [fn |-> "team", teams |-> teams, id |-> id, how |-> how]

\* One block, for the code, full name and arena id of the document. The
\* SELECT by full name returns any of the rows with that name.
ResolveTeam(team_code, full_name, arena) ==
  LET teams  == parseOut.teams
      byCode == { r \in teams : team_code # Null /\ r.team_code = team_code }
      byName == { r \in teams : full_name # Null /\ r.full_name = full_name }
  IN /\ parseIn' = [teams |-> teams, team_code |-> team_code,
                    full_name |-> full_name, arena |-> arena]
     /\ IF byCode # {}
        THEN \E r \in byCode :
               parseOut' = TeamResult(
                 UpdateTeam(teams, r,
                   [r EXCEPT !.full_name = Coalesce(@, full_name),
                             !.arena_id = Coalesce(@, arena)]),
                 r.team_id, "by_code")
        ELSE IF byName # {}
        THEN \E r \in byName :
               parseOut' = TeamResult(
                 UpdateTeam(teams, r,
                   [r EXCEPT !.team_code = Coalesce(@, team_code),
                             !.arena_id = Coalesce(@, arena)]),
                 r.team_id, "by_name")
        ELSE IF team_code # Null \/ full_name # Null
        THEN /\ Cardinality(teams) < MaxTeams
             /\ parseOut' = TeamResult(
                  teams \cup {[team_id |-> Cardinality(teams) + 1,
                               team_code |-> team_code,
                               full_name |-> full_name, arena_id |-> arena]},
                  Cardinality(teams) + 1, "inserted")
        ELSE parseOut' = TeamResult(teams, NoId, "no_identifier")
     /\ UNCHANGED <<spiderCore, pipelineVars, loadVars>>

NextTeam ==
  \E team_code \in TeamCodes \cup {Null}, full_name \in TeamNames \cup {Null},
     arena \in ArenaIds \cup {Null} :
    ResolveTeam(team_code, full_name, arena)

InitTeam ==
  /\ SpiderIdle
  /\ PipelineInit
  /\ LoadIdle
  /\ parseIn = [teams |-> {}, team_code |-> Null, full_name |-> Null,
                arena |-> Null]
  /\ parseOut = TeamResult({}, NoId, "none")

SpecTeam == InitTeam /\ [][NextTeam]_vars

\* ================================================================ claims

\* the crawl has come to rest: no generator left to run, no request in flight,
\* no callback running
Quiescent ==
  /\ ~(cursorOpen /\ startIdx <= Len(urls_to_process))
  /\ \A u \in Urls : sched[u] \notin {"inflight", "parsing"}
  /\ \A m \in MatchUrls : req[m] \notin {"inflight", "processing"}

\* C1 (as claimed): for a batch whose parse has finished and registered the
\* children C (non-empty), once every member of C has run the finally block
\* exactly once, the pending-set-empty branch has run exactly once.
C1_CloseExactlyOnce ==
  \A u \in Urls :
    ( /\ sched[u] = "done"
      /\ registered[u] # {}
      /\ \A m \in registered[u] : completeCount[<<u, m>>] = 1 )
    => closeFired[u] = 1

\* C2: while a starting url's is_current_season flag is true, no step executes
\* the UPDATE ... SET is_scraped = true for it or marks it scraped.
C2_NoMarkForCurrent ==
  [][ \A u \in Urls :
        start_url_meta[u] = "True"
        => /\ markAttempts'[u] = markAttempts[u]
           /\ (u \in is_scraped') <=> (u \in is_scraped) ]_vars

\* C2 witness: a current-season batch has just emptied its pending set.
C2_Witness ==
  /\ lastOp.op = "complete"
  /\ lastOp.result = "closed"
  /\ start_url_meta[lastOp.url] = "True"

\* C3 (as claimed): every registered child is removed from its pending set by
\* the completion step, whatever became of its fetch: when the crawl has come
\* to rest, no pending set holds a child.
C3_NoChildLeftPending ==
  Quiescent => \A u \in Urls : pending_match_requests[u] \in {NoSet, {}}

\* C4 (as claimed): the pending-set-empty branch never runs for a starting url
\* that still gets a child registered: a starting url whose branch has run has
\* no pending child.
C4_NoPrematureClose ==
  \A u \in Urls : closeFired[u] > 0 => pending_match_requests[u] = {}

\* C5: a step in which a batch flagged false empties its pending set, with
\* cursor and connection at hand, executes the UPDATE once, for that starting
\* url only, marks no other url, and - the store answering - has committed the
\* mark when the step (the finally block) ends.
C5_MarkOnClose ==
  [][ \A u \in Urls :
        ( /\ closeFired'[u] # closeFired[u]
          /\ start_url_meta[u] = "False"
          /\ cursorOpen )
        => /\ markAttempts' = [markAttempts EXCEPT ![u] = @ + 1]
           /\ is_scraped' \subseteq is_scraped \cup {u}
           /\ (~dbFailed' => u \in is_scraped') ]_vars

\* C5 witness: a batch flagged false has just closed and is marked, another
\* open batch is not.
C5_Witness ==
  /\ lastOp.op = "complete"
  /\ lastOp.result = "closed"
  /\ start_url_meta[lastOp.url] = "False"
  /\ lastOp.url \in is_scraped
  /\ \E v \in Urls \ {lastOp.url} :
       /\ pending_match_requests[v] # NoSet
       /\ v \notin is_scraped

\* C6: a step that runs the finally block for a child that is not in the
\* pending set of its starting url changes no pending set and no flag, does not
\* run the pending-set-empty branch and does not touch the store.
C6_UntrackedNoAction ==
  [][ \A u \in Urls, m \in MatchUrls :
        ( /\ completeCount'[<<u, m>>] # completeCount[<<u, m>>]
          /\ m \notin pending_match_requests[u] )
        => UNCHANGED <<pending_match_requests, start_url_meta, closeFired,
                       markAttempts, is_scraped, dbFailed>> ]_vars

\* C6 witness: a child has completed a second time on a batch whose pending
\* set was already empty and whose branch had run.
C6_Witness ==
  /\ lastOp.op = "complete"
  /\ lastOp.result = "untracked"
  /\ pending_match_requests[lastOp.url] = {}
  /\ closeFired[lastOp.url] = 1
  /\ completeCount[<<lastOp.url, lastOp.match>>] = 2

\* a step that runs parse's tracking block for child m of starting url u
RegisterStep(u, m) ==
  /\ lastOp'.op = "register"
  /\ lastOp'.url = u
  /\ lastOp'.match = m

\* C7 (as claimed): registering a child for a starting url that has no entry
\* leaves pending_match_requests without an entry for it, and the child's
\* request is still yielded.
C7_UnknownBatchNotTracked ==
  [][ \A u \in Urls, m \in MatchUrls :
        (RegisterStep(u, m) /\ pending_match_requests[u] = NoSet)
        => /\ pending_match_requests' = pending_match_requests
           /\ req'[m] # "none" ]_vars

\* C7 (amended): registering a child for a starting url that has no entry
\* creates the entry, holding exactly that child; start_url_meta gains no
\* entry, and the child's request is still yielded.
C7_UnknownBatchInitialized ==
  [][ \A u \in Urls, m \in MatchUrls :
        (RegisterStep(u, m) /\ pending_match_requests[u] = NoSet)
        => /\ pending_match_requests' =
                [pending_match_requests EXCEPT ![u] = {m}]
           /\ start_url_meta' = start_url_meta
           /\ req'[m] # "none" ]_vars

\* C7 witness: a child was registered for a starting url never opened.
C7_Witness ==
  /\ lastOp.op = "register"
  /\ lastOp.result = "initialized"
  /\ start_url_meta[lastOp.url] = NoMeta
  /\ pending_match_requests[lastOp.url] = {lastOp.match}

\* C8 (as claimed): opening a starting url that is not open gives it an empty
\* pending set; opening one that start_requests has already opened leaves its
\* pending set and its flag as they are.
C8_DuplicateOpenRejected ==
  [][ \A u \in Urls :
        (lastOp'.op = "open" /\ lastOp'.url = u)
        => IF start_url_meta[u] = NoMeta
           THEN pending_match_requests'[u] = {}
           ELSE /\ pending_match_requests'[u] = pending_match_requests[u]
                /\ start_url_meta'[u] = start_url_meta[u] ]_vars

\* C9 (as claimed): once the UPDATE or its commit has failed for a starting
\* url, no further UPDATE is executed for it, its pending set stays empty and
\* its pending-set-empty branch does not run again.
C9_FailedMarkIsFinal ==
  [][ \A u \in markFailed :
        /\ markAttempts'[u] = markAttempts[u]
        /\ closeFired'[u] = closeFired[u]
        /\ pending_match_requests'[u] = {} ]_vars

\* calls of get_or_create_id that ran without a store error
GoodCalls == { c \in calls : ~IsBlankValue(c.value) /\ c.how # "error" }

\* at most one committed row for each key
OneRowPerKey ==
  \A k \in Keys : Cardinality({ r \in rows : r.key = k /\ r.committed }) <= 1

C11_BlankNoStore ==
  [][ \A t \in Txs :
        (nCalls'[t] # nCalls[t] /\ arg'[t] \in {NoneVal, Blank})
        => /\ pc'[t] = "idle"
           /\ \E c \in calls' : c.tx = t /\ c.n = nCalls'[t] /\ c.ret = NoId
           /\ UNCHANGED <<rows, seq, txState>> ]_vars

\* C11 witness: a blank key was passed while the table held a row, and the
\* call returned None.
C11_Witness ==
  /\ rows # {}
  /\ \E c \in calls : c.value = Blank /\ c.ret = NoId /\ c.how = "blank"
  /\ \E c \in calls : c.value = NoneVal /\ c.how = "blank"

\* the raw token is None, empty or whitespace only
BlankToken(t) == t = NoneTok \/ \A i \in 1..Len(t) : t[i] = " "

\* C16: parse_score gives (0, false, None) for an empty, whitespace-only or
\* absent token; for any other token the bonus flag is true exactly when the
\* token holds the marker ', and with m the token trimmed, uppercased and
\* stripped of the marker: (n, bonus, None) when m parses as the integer n,
\* (0, bonus, m) otherwise. An accident code comes with 0 points.
C16_ParseScore ==
  parseOut.fn = "parse_score" =>
    LET t == Get(parseIn, <<>>)
        r == parseOut.res
    IN IF BlankToken(t)
       THEN r = Score(0, FALSE, NoneTok)
       ELSE LET bonus == \E i \in 1..Len(t) : t[i] = "'"
                m == Upper(Remove(Strip(t), "'"))
            IN /\ r.with_bonus = bonus
               /\ IF IntParses(m)
                  THEN r = Score(IntValue(Strip(m)), bonus, NoneTok)
                  ELSE r = Score(0, bonus, m)
               /\ (r.accident_text # NoneTok => r.points_numeric = 0)

\* C16 witness: a token with the marker in front of an accident code was
\* parsed: bonus set, 0 points, the code uppercased.
C16_Witness ==
  /\ parseOut.fn = "parse_score"
  /\ parseIn = <<"'", "x">>
  /\ parseOut.res = Score(0, TRUE, <<"X">>)

\* C18 (as claimed): an integer-ish field that consists solely of digits is
\* stored as that integer; any other value - blank, alphabetic, None, or a
\* missing key - is stored as null, and as 0 for home_score and away_score.
C18_IntegerIsh ==
  parseOut.fn \in FieldKinds =>
    /\ ~parseOut.res.raised
    /\ parseOut.res.value =
         IF parseIn \notin {NoneTok, Missing} /\ IsDigit(parseIn)
         THEN IntValue(parseIn)
         ELSE IF parseOut.fn = "headline" THEN 0 ELSE NoneVal

\* a summary of the rider with a lap detail of the heat
Matching(telemetry_data, rider_name, heat_display_number) ==
  { d \in Details :
      /\ telemetry_data.isList
      /\ \E i \in 1..Len(telemetry_data.items) :
           LET e == telemetry_data.items[i] IN
             /\ Upper(e.rider_name) = Upper(rider_name)
             /\ e.detailed_telemetry.isList
             /\ \E j \in 1..Len(e.detailed_telemetry.items) :
                  /\ e.detailed_telemetry.items[j] = d
                  /\ Remove(d.heat_number, ".")
                       = Remove(heat_display_number, ".") }

\* C20: the seven telemetry fields of a participant row are either all null or
\* the parsed measurements of a lap detail that belongs to a summary whose
\* rider name equals the participant's up to case and whose heat number
\* equals the heat's label up to dots; without such a detail (telemetry_data
\* not a list included) all seven are null. The row is written either way.
C20_TelemetryOnlyOnMatch ==
  parseOut.fn = "telemetry" =>
    LET ms == Matching(parseIn.telemetry_data, parseIn.rider_name,
                       parseIn.heat_display_number)
    IN /\ parseOut.written
       /\ \/ parseOut.res = NoTelemetry
          \/ \E d \in ms :
               parseOut.res = [f \in TeleFields |-> parse_telemetry_value(d.raw)]
       /\ (ms = {} => parseOut.res = NoTelemetry)

\* C20 witness: the fields were filled from a summary whose name differs from
\* the participant's in case and whose heat number differs by the dot, with
\* another rider's summary standing first in the list.
C20_Witness ==
  /\ parseOut.fn = "telemetry"
  /\ parseOut.res # NoTelemetry
  /\ parseIn.rider_name = <<"x">>
  /\ parseIn.heat_display_number = <<"1", ".">>
  /\ Len(parseIn.telemetry_data.items) = 2
  /\ parseIn.telemetry_data.items[1].rider_name = <<"y">>
  /\ parseIn.telemetry_data.items[1].detailed_telemetry.isList
  /\ parseIn.telemetry_data.items[2].rider_name = <<"X">>
  /\ parseIn.telemetry_data.items[2].detailed_telemetry =
       AList(<<[heat_number |-> <<"1">>, raw |-> "61.8 s"]>>)

\* -------------------------------------------------- transform_and_load

\* C12 (as claimed): when the resolution of a natural key fails - the insert
\* met a conflict and the lookup after it found nothing, or the insert raised
\* a store error - the document's transaction is rolled back: the load does
\* not reach the commit and does not end committed.
C12_ResolutionFailureAborts ==
  /\ resolution \in {"lost", "error"} => lpc # "move"
  /\ lastLoad.resolution \in {"lost", "error"} => lastLoad.outcome = "rolledback"

\* no two rows of a table share the table's key
KeysUnique(t) ==
  /\ \A r1, r2 \in t.matches : r1.match_url = r2.match_url => r1 = r2
  /\ \A r1, r2 \in t.match_team_info :
       (r1.match_id = r2.match_id /\ r1.team_id = r2.team_id) => r1 = r2
  /\ \A r1, r2 \in t.match_rider_stats :
       (r1.match_id = r2.match_id /\ r1.team_id = r2.team_id
          /\ r1.rider_id = r2.rider_id) => r1 = r2
  /\ \A r1, r2 \in t.heats :
       (r1.match_id = r2.match_id
          /\ r1.heat_sequence_in_match = r2.heat_sequence_in_match) => r1 = r2
  /\ \A r1, r2 \in t.heat_participants :
       (r1.heat_id = r2.heat_id
          /\ r1.match_rider_stat_id = r2.match_rider_stat_id) => r1 = r2

\* the positions of the labelled heats of a document
StoredPositions(d) ==
  { i \in 1..Len(d.match_details) :
      d.match_details[i].heat_number \notin {NoneTok, <<>>} }

\* every row of document d is in the tables t with the document's values
HoldsValuesOf(t, d) ==
  /\ \E r \in t.matches :
       /\ r.match_url = d.match_url
       /\ r.round_name = d.text
       /\ r.home_score = IF IsDigit(d.home_score_details)
                         THEN IntValue(d.home_score_details) ELSE 0
       /\ r.arena_id = IF d.arena = NoneVal THEN NoId ELSE d.arena
  /\ d.arena # NoneVal => d.arena \in t.arenas
  /\ \A team \in {"home", "away"} :
       \E r \in t.match_team_info :
         r.match_id = d.match_url /\ r.team_id = team /\ r.manager_name = d.text
  /\ \E r \in t.match_rider_stats :
       r.match_id = d.match_url /\ r.rider_number_in_match = d.text
  /\ \A i \in StoredPositions(d) :
       /\ \E r \in t.heats :
            /\ r.match_id = d.match_url
            /\ r.heat_sequence_in_match = i
            /\ r.heat_display_number = d.match_details[i].heat_number
            /\ r.hometeam_heat_score =
                 IF IsDigit(d.match_details[i].hometeam_heat_score)
                 THEN IntValue(d.match_details[i].hometeam_heat_score)
                 ELSE NoneVal
       /\ \E r \in t.heat_participants :
            r.heat_id = <<d.match_url, i>> /\ r.helmet_color = d.text

RaisedNow ==
  /\ lpc' = "idle"
  /\ \/ lpc \in {"resolve", "match", "heats", "commit"}
     \/ (lpc = "idle" /\ loads' = loads + 1)

\* C14: while a document's load is on its way to the commit the committed
\* rows are those of the moment it began, and a load that raises ends rolled
\* back with the committed rows still those; the committed rows change at the
\* commit only, which brings the rows of all the document's tables at once.
C14_Atomic ==
  [][ /\ lpc \in {"resolve", "match", "heats", "commit"} => db = dbAtBegin
      /\ RaisedNow => (lastLoad'.outcome = "rolledback" /\ db' = dbAtBegin')
      /\ db' # db => /\ lpc = "commit"
                     /\ lpc' = "move"
                     /\ db' = tx
                     /\ HoldsValuesOf(db', match_data) ]_vars

\* C14 witness: a load raised in the heat loop after its transaction had
\* written rows (at least those of the match), a parse error of a later heat
\* included, and no row of it is committed.
C14_Witness ==
  /\ lastLoad.outcome = "rolledback"
  /\ lastLoad.stage = "heats"
  /\ lastLoad.dirty
  /\ lpc = "idle"
  /\ db = EmptyDb
  /\ loads = 1

\* C15: a file leaves the input directory only in the step after the commit
\* of its own load, for the processed directory and with the rows of its
\* document committed; a load that raises leaves both directories as they
\* were, its file still in the input directory.
C15_MoveAfterCommit ==
  [][ /\ \A f \in Files :
           (f \in inbound /\ f \notin inbound') =>
             /\ lpc = "move"
             /\ cur = f
             /\ f \in processed'
             /\ loaded = match_data
             /\ db = tx
             /\ HoldsValuesOf(db, match_data)
      /\ RaisedNow =>
           /\ inbound' = inbound
           /\ processed' = processed
           /\ (cur # NoFile => cur \in inbound') ]_vars

\* C15 witness: a file was loaded, committed and moved; the crawler wrote it
\* again, the second load was rolled back after it had written rows, and the
\* file is still in the input directory.
C15_Witness ==
  /\ lpc = "idle"
  /\ loads = 2
  /\ lastLoad.outcome = "rolledback"
  /\ lastLoad.dirty
  /\ processed = {1}
  /\ inbound = {1}
  /\ db.matches # {}

\* C17 (as claimed): the heats stored by the load of a document into an empty
\* store are as many as the document's labelled heats and carry the sequence
\* numbers 1, 2, 3, ... without a gap.
C17_Contiguous ==
  (lpc = "move" /\ dbAtBegin = EmptyDb) =>
    LET stored == { r.heat_sequence_in_match : r \in db.heats } IN
      /\ Cardinality(db.heats) = Cardinality(StoredPositions(match_data))
      /\ stored = 1..Cardinality(stored)

\* C17 (amended): the heat loop writes a heats row and participant rows for
\* the labelled heats only, each under its 1-based position in match_details
\* with the unlabelled heats counted; at the position of an unlabelled heat
\* the tables keep what they had.
C17_SequenceIsPosition ==
  [][ (lpc = "heats" /\ lpc' = "commit") =>
        LET d == match_data
            positions == StoredPositions(d)
        IN /\ \A i \in positions :
                \E r \in tx'.heats :
                  /\ r.match_id = d.match_url
                  /\ r.heat_sequence_in_match = i
                  /\ r.heat_display_number = d.match_details[i].heat_number
           /\ \A r \in tx'.heats :
                r.heat_sequence_in_match \notin positions => r \in tx.heats
           /\ \A r \in tx.heats :
                r.heat_sequence_in_match \notin positions => r \in tx'.heats
           /\ \A r \in tx'.heat_participants :
                r.heat_id[2] \notin positions => r \in tx.heat_participants
           /\ \A i \in positions :
                \E r \in tx'.heat_participants : r.heat_id = <<d.match_url, i>>
     ]_vars

\* C17 witness: of an unlabelled heat followed by a labelled one, loaded into
\* an empty store, the one heat stored has the sequence number 2.
C17_Witness ==
  /\ lpc = "move"
  /\ dbAtBegin = EmptyDb
  /\ Len(match_data.match_details) = 2
  /\ match_data.match_details[1].heat_number = NoneTok
  /\ match_data.match_details[2].heat_number = <<"1">>
  /\ { r.heat_sequence_in_match : r \in db.heats } = {2}
  /\ { r.heat_id : r \in db.heat_participants } = {<<DocUrl, 2>>}

\* C19 (as claimed): no load is rolled back because a field of its document -
\* the headline score or a heat score, blank, unparseable or null - could not
\* be parsed: the default is stored and the load goes on to its commit.
C19_FallbackNeverAborts ==
  lastLoad.outcome = "rolledback" => lastLoad.cause # "parse"

\* ---------------------------------------------------- team resolution

\* row r as the resolution left it
RowAfter(r) == CHOOSE r2 \in parseOut.teams : r2.team_id = r.team_id

\* C21: a team resolution keeps every row of teams; in each row each of
\* team_code, full_name and arena_id that was non-null keeps its value, a
\* null one stays null or takes the value of the current document, and rows
\* other than the one found are as they were.
C21_NoOverwrite ==
  parseOut.how # "none" =>
    \A r \in parseIn.teams :
      /\ \E r2 \in parseOut.teams : r2.team_id = r.team_id
      /\ r.team_code # Null => RowAfter(r).team_code = r.team_code
      /\ r.full_name # Null => RowAfter(r).full_name = r.full_name
      /\ r.arena_id # Null => RowAfter(r).arena_id = r.arena_id
      /\ RowAfter(r).team_code \in {r.team_code, parseIn.team_code}
      /\ RowAfter(r).full_name \in {r.full_name, parseIn.full_name}
      /\ RowAfter(r).arena_id \in {r.arena_id, parseIn.arena}
      /\ r.team_id # parseOut.id => RowAfter(r) = r

\* C21 witness: a row found by its code had an arena and no name; the
\* document brought a name and another arena; the name is filled in and the
\* arena is the old one.
C21_Witness ==
  /\ parseOut.how = "by_code"
  /\ parseIn.full_name = "n1"
  /\ parseIn.arena = "a2"
  /\ \E r \in parseIn.teams :
       /\ r.team_id = parseOut.id
       /\ r.full_name = Null
       /\ r.arena_id = "a1"
       /\ RowAfter(r).full_name = "n1"
       /\ RowAfter(r).arena_id = "a1"

\* -------------------------------------------------- the reactor thread

\* the batch whose mark write is in progress, if any
Writing == { reqMeta[m] : m \in { x \in MatchUrls : req[x] = "writing" } }

\* C22 (as claimed): while the mark write of one batch is in progress, a
\* child can be registered for another batch and a child of another batch
\* can complete.
C22_WriteDoesNotBlock ==
  \A a \in Writing :
    apiOps < MaxApiOps =>
      \A b \in Urls \ {a} :
        /\ ENABLED (\E m \in MatchUrls : WriteRegister(b, m))
        /\ ENABLED (\E m \in MatchUrls : CompleteBegin(b, m))

\* ------------------------------------------------ heat participants

\* C23: at every commit each heat_participants row references a
\* match_rider_stats row of the heat's match whose rider is the
\* participant's; the riders of a heat who have no stat row get no row, and
\* the document's other rows are committed with its values.
C23_ParticipantHasStat ==
  [][ (lpc = "commit" /\ lpc' = "move") =>
        /\ \A p \in db'.heat_participants :
             \E st \in db'.match_rider_stats :
               /\ p.match_rider_stat_id = <<st.match_id, st.team_id, st.rider_id>>
               /\ st.match_id = p.heat_id[1]
        /\ \A p \in db'.heat_participants :
             p.match_rider_stat_id[3] \in Roster
        /\ HoldsValuesOf(db', match_data) ]_vars

\* C23 witness: a document whose heats list a rider of no roster next to a
\* rider of the roster is committed with the one participant row per heat.
C23_Witness ==
  /\ lpc = "move"
  /\ match_data.heat_riders = <<"r1", "r2">>
  /\ Len(match_data.match_details) = 2
  /\ Cardinality(db.heats) = 2
  /\ Cardinality(db.heat_participants) = 2
  /\ \A p \in db.heat_participants : p.match_rider_stat_id[3] = "r1"

\* ------------------------------------------------- heat label matching

\* a label without its last character when that is a dot
StripTrailingDot(label) ==
  IF label # <<>> /\ label[Len(label)] = "."
  THEN SubSeq(label, 1, Len(label) - 1) ELSE label

\* C24 (as claimed): telemetry is taken for a participant only from a lap
\* detail whose heat number is identical to the heat's label after at most
\* one trailing '.' is removed from each.
C24_TrailingDotOnly ==
  (parseOut.fn = "telemetry" /\ parseOut.res # NoTelemetry) =>
    \E i \in 1..Len(parseIn.telemetry_data.items) :
      LET e == parseIn.telemetry_data.items[i] IN
        /\ e.detailed_telemetry.isList
        /\ \E j \in 1..Len(e.detailed_telemetry.items) :
             StripTrailingDot(e.detailed_telemetry.items[j].heat_number)
               = StripTrailingDot(parseIn.heat_display_number)

\* ------------------------------------------------- the existence check

\* C25: a match is added to a pending set, and its request is taken by the
\* engine, only if it is not in table matches or the store has failed at its
\* existence check; a match of the table that parse registers is registered
\* after such a failure, and is then in the pending set and requested.
C25_SkipExisting ==
  [][ /\ \A u \in Urls, m \in MatchUrls :
           (m \in pending_match_requests'[u] /\ m \notin pending_match_requests[u])
             => (m \notin matchesInDb \/ dbFailed')
      /\ \A m \in MatchUrls :
           (req[m] = "none" /\ req'[m] # "none")
             => (m \notin matchesInDb \/ dbFailed')
      /\ (lastOp'.op = "register" /\ lastOp'.mark = "in_matches") =>
           /\ dbFailed'
           /\ lastOp'.match \in pending_match_requests'[lastOp'.url]
           /\ req'[lastOp'.match] # "none" ]_vars

\* C25 witness: parse ended having skipped every link of a page while both
\* matches are in the table and the store works; and on another page a match
\* of the table was registered and requested after the store failed.
C25_Witness ==
  /\ matchesInDb = MatchUrls
  /\ lastOp.op = "register"
  /\ lastOp.mark = "in_matches"
  /\ dbFailed
  /\ req[lastOp.match] = "inflight"
  /\ \E u \in Urls \ {lastOp.url} :
       /\ sched[u] = "done"
       /\ registered[u] = {}

\* ------------------------------------------------------ the pending sets

\* the pending set of a batch, empty for a key that was never opened
PendingOf(pending, u) == IF pending[u] = NoSet THEN {} ELSE pending[u]

\* the children of batch u whose completion step has run
Completed(counts, u) == { m \in MatchUrls : counts[<<u, m>>] > 0 }

\* C26 (as claimed): each batch's pending set is the set of children
\* registered for it minus those whose completion step has run, and a child
\* leaves a pending set only by its own completion step and only once.
C26_PendingIsRegisteredMinusCompleted ==
  [][ /\ \A u \in Urls :
           PendingOf(pending_match_requests', u)
             = registered'[u] \ Completed(completeCount', u)
      /\ \A u \in Urls, m \in MatchUrls :
           (m \in PendingOf(pending_match_requests, u)
              /\ m \notin PendingOf(pending_match_requests', u))
             => /\ lastOp'.op = "complete"
                /\ lastOp'.url = u
                /\ lastOp'.match = m
                /\ completeCount[<<u, m>>] = 0 ]_vars

\* C27: a batch for which parse has registered no child has never run the
\* empty-set branch of the completion step, no UPDATE was executed for it and
\* its url is not marked is_scraped, whatever its is_current_season flag.
C27_NoChildNoClose ==
  \A u \in Urls :
    registered[u] = {} =>
      /\ closeFired[u] = 0
      /\ markAttempts[u] = 0
      /\ u \notin is_scraped

\* C27 witness: the crawl is over; the page of a starting url of a past
\* season was parsed to its end with no child registered and the url is not
\* marked, while the other starting url is.
C27_Witness ==
  \E u \in Urls :
    /\ start_url_meta[u] = "False"
    /\ sched[u] = "done"
    /\ registered[u] = {}
    /\ u \notin is_scraped
    /\ is_scraped = Urls \ {u}
    /\ \A m \in MatchUrls : req[m] \in {"none", "done"}

\* C28 (as claimed): once the UPDATE of one starting url has failed, a step in
\* which another starting url flagged false empties its pending set, with the
\* store answering, leaves that url marked is_scraped.
C28_FailedMarkIsLocal ==
  [][ \A u \in Urls :
        ( /\ closeFired'[u] # closeFired[u]
          /\ start_url_meta[u] = "False"
          /\ markFailed \ {u} # {}
          /\ lastOp'.mark # "failed" )
        => u \in is_scraped' ]_vars

\* C29 (as claimed): while a run of transform_and_load is in its loop, the
\* files it has entered the loop body for are the listed files before the
\* loop's position, each once and in the listing's order; when the run is
\* over, they are all the listed files.
C29_EveryListedOnce ==
  /\ pass = "running" =>
       attemptedFiles = SubSeq(json_files, 1, next_file - 1)
  /\ pass \in {"ended", "raised"} => attemptedFiles = json_files

\* C30: when a document's transaction is committed, each labelled heat object
\* of match_details has one stored heat whose heat_sequence_in_match is the
\* object's 1-based position in the list (unlabelled objects counted) and
\* whose label is the object's; a stored heat at any other sequence number is
\* a row the store had before the load. In every state no two heats of a
\* match, committed or in the open transaction, share a sequence number.
C30_SequenceIsListPosition ==
  /\ \A t \in {db, tx} : \A r1, r2 \in t.heats :
       ( /\ r1.match_id = r2.match_id
         /\ r1.heat_sequence_in_match = r2.heat_sequence_in_match ) => r1 = r2
  /\ lpc = "move" =>
       LET heats == match_data.match_details
           positions == { i \in 1..Len(heats) :
                            heats[i].heat_number \notin {NoneTok, <<>>} }
       IN /\ \A i \in positions :
               \E r \in db.heats :
                 /\ r.match_id = match_data.match_url
                 /\ r.heat_sequence_in_match = i
          /\ \A r \in db.heats :
               IF r.heat_sequence_in_match \in positions
               THEN r.heat_display_number =
                      heats[r.heat_sequence_in_match].heat_number
               ELSE r \in dbAtBegin.heats

\* C30 witness: two heat objects with the same label are committed as two
\* heats, with the sequence numbers 1 and 2.
C30_Witness ==
  /\ lpc = "move"
  /\ Len(match_data.match_details) = 2
  /\ match_data.match_details[1].heat_number = match_data.match_details[2].heat_number
  /\ \E r1, r2 \in db.heats :
       /\ r1.heat_sequence_in_match = 1
       /\ r2.heat_sequence_in_match = 2
       /\ r1.heat_display_number = r2.heat_display_number

====
